---- MODULE Spec2Model ----
(***************************************************************************)
(* Model of the scene viewer's orchestration layer (src/src/main.ts):      *)
(* the search_form submit handler with its module-level `searching` flag,  *)
(* isolateObjects writing the scene's object highlight index, the main     *)
(* render loop, and the PositionButton camera bookmarks.                   *)
(*                                                                         *)
(* The runtime is single threaded: a handler runs without interruption     *)
(* from one await to the next, so every action below is one such stretch.  *)
(* The scene's search() is an external collaborator: its sequence yields   *)
(* objects one at a time, may end or throw at any step, and once the       *)
(* signal it was given is aborted it yields nothing more and either ends   *)
(* or throws (the declaration leaves this open).                           *)
(***************************************************************************)
EXTENDS Integers, Sequences, FiniteSets, TLC

\* ---- bounds ----
MaxSessions == 3    \* submit events in one run
NumObjects == 2     \* length of objectHighlightIndices
MaxMatches == 2     \* longest match sequence a search yields
MaxCalls == 2       \* consecutive isolateObjects calls in SpecIsolate

\* ---- program constants ----
Visible == 0
Hidden == 255
NumSlots == 3       \* main.ts:37  index < 3

Sessions == 1..MaxSessions
Ids == 0..(NumObjects - 1)
\* Id lists handed to isolateObjects: each object at most once.
MatchSeqs ==
    {q \in UNION {[1..n -> Ids] : n \in 0..MaxMatches} :
        \A i, j \in 1..Len(q) : i # j => q[i] # q[j]}
PriorGroups == {Visible, 1, Hidden}
\* Values of the search-input element.
Texts == {"", "wall"}
\* Client sizes of the canvas, <<clientWidth, clientHeight>>.
Sizes == {<<300, 150>>, <<800, 600>>, <<1920, 1080>>}
\* Camera poses: position (vec3) and rotation (quat, x y z w).
Poses ==
    {[position |-> <<1, 2, 3>>, rotation |-> <<0, 0, 0, 1>>],
     [position |-> <<4, 5, 6>>, rotation |-> <<0, 1, 0, 0>>]}
\* Where the scene puts the camera.
HomePose == [position |-> <<1, 2, 3>>, rotation |-> <<0, 0, 0, 1>>]
NoPose == [position |-> <<>>, rotation |-> <<>>]
NoFrame == [size |-> <<>>, index |-> <<>>]
Slots == 1..NumSlots
\* MouseEvent.button: 0 primary, 1 auxiliary, 2 secondary.
MouseButtons == {0, 1, 2}

VARIABLES
    searching,                \* main.ts:40  let searching
    registered,               \* whether the submit listener of line 42 is registered
    nsub,                     \* number of submit events handled so far
    pc,                       \* per handler invocation: where it is
    aborted,                  \* per invocation: abortController.signal.aborted
    result,                   \* per invocation: const result: number[]
    yielded,                  \* per invocation: what its search() has yielded
    objectHighlightIndices,   \* scene.objectHighlighter.objectHighlightIndices
    published,                \* the index as last committed for rendering
    commits,                  \* number of commit() calls
    log,                      \* the calls made by the latest handler stretch
    calls,                    \* SpecIsolate: one record per isolateObjects call
    searchInput,              \* value of the search-input element
    rpc,                      \* the await at which main is suspended
    outstanding,              \* frame requests whose image is not yet retrieved
    unreleased,               \* image bitmaps obtained and not yet closed
    surface,                  \* the canvas' current clientWidth, clientHeight
    settings,                 \* display size last applied to the view
    ctx,                      \* whether getContext("bitmaprenderer") gave a context
    frame,                    \* the output of the latest view.render()
    displayed,                \* the frame whose image the canvas shows
    buttons,                  \* per PositionButton: positionX/Y/Z and rotation
    captured,                 \* per PositionButton: the camera pose at its latest capture
    overwritten,              \* the buttons whose latest capture replaced a different captured pose
    camera                    \* the camera's current position and rotation

vars == <<searching, registered, nsub, pc, aborted, result, yielded,
          objectHighlightIndices, published, commits, log, calls,
          searchInput, rpc, outstanding, unreleased, surface, settings, ctx,
          frame, displayed,
          buttons, captured, overwritten, camera>>

sessionVars == <<searching, registered, nsub, pc, aborted, result, yielded>>

highlightVars == <<objectHighlightIndices, published, commits>>

renderVars == <<rpc, outstanding, unreleased, surface, settings, ctx,
                frame, displayed>>

bookmarkVars == <<buttons, captured, overwritten, camera>>

Range(seq) == {seq[i] : i \in 1..Len(seq)}

Event(e, s, ids) == [ev |-> e, s |-> s, ids |-> ids]

\* ---- isolateObjects (main.ts:94-103) ----

\* Uint8Array.prototype.fill
fill(arr, v) == [i \in DOMAIN arr |-> v]

\* ids.forEach((id) => (indices[id] = 0)); a typed array ignores a write
\* outside its bounds.
RECURSIVE forEachShow(_, _)
forEachShow(arr, ids) ==
    IF ids = <<>> THEN arr
    ELSE forEachShow(IF Head(ids) \in DOMAIN arr
                        THEN [arr EXCEPT ![Head(ids)] = Visible]
                        ELSE arr,
                     Tail(ids))

\* Mutant: the fill(255) is forgotten, the matched ids are only shown.
isolateObjects_noFill(arr, ids) ==
    IF Len(ids) = 0 THEN fill(arr, Visible)
    ELSE forEachShow(arr, ids)

\* Mutant: the empty-list early return is missing.
isolateObjects_noEmptyCase(arr, ids) ==
    forEachShow(fill(arr, Hidden), ids)

\* Mutant: the matched ids are toggled instead of hide-all-then-show.
RECURSIVE forEachToggle(_, _)
forEachToggle(arr, ids) ==
    IF ids = <<>> THEN arr
    ELSE forEachToggle(IF Head(ids) \in DOMAIN arr
                          THEN [arr EXCEPT ![Head(ids)] =
                                    IF @ = Visible THEN Hidden ELSE Visible]
                          ELSE arr,
                       Tail(ids))

isolateObjects_toggle(arr, ids) ==
    IF Len(ids) = 0 THEN fill(arr, Visible)
    ELSE forEachToggle(arr, ids)

\* Mutant: the rest is dimmed into group 254 instead of hidden.
isolateObjects_dim(arr, ids) ==
    IF Len(ids) = 0 THEN fill(arr, Visible)
    ELSE forEachShow(fill(arr, Hidden - 1), ids)

\* The index array after isolateObjects(scene, ids).
isolateObjects(arr, ids) ==
    IF Len(ids) = 0 THEN fill(arr, Visible)
    ELSE forEachShow(fill(arr, Hidden), ids)

\* Mutant: the commit is forgotten.
commit_missing ==
    /\ published' = published
    /\ commits' = commits

\* objectHighlighter.commit(): publishes the index written so far.
commit ==
    /\ published' = objectHighlightIndices'
    /\ commits' = commits + 1

\* ---- the submit handler (main.ts:42-65) ----

\* Mutant: matches are collected in reverse.
push_front(arr, x) == <<x>> \o arr

\* result.push(object.id)
push(arr, x) == Append(arr, x)

\* constructor(camera): main.ts:37-39 creates NumSlots of them.
PositionButton ==
    [positionX |-> 0, positionY |-> 0, positionZ |-> 0,
     rotation |-> <<0, 0, 0, 0>>]

\* The state when main first suspends in the render loop (line 75): the
\* scene is loaded, the buttons are created, the submit handler is
\* registered, and the first iteration has applied the canvas' size and
\* requested a frame.
InitWith(size, context, pose) ==
    /\ searching = FALSE
    /\ registered = TRUE
    /\ nsub = 0
    /\ pc = [s \in Sessions |-> "idle"]
    /\ aborted = [s \in Sessions |-> FALSE]
    /\ result = [s \in Sessions |-> <<>>]
    /\ yielded = [s \in Sessions |-> <<>>]
    /\ objectHighlightIndices = [i \in Ids |-> Visible]
    /\ published = [i \in Ids |-> Visible]
    /\ commits = 0
    /\ log = <<>>
    /\ calls = <<>>
    /\ searchInput = ""
    /\ rpc = "rendering"
    /\ outstanding = 1
    /\ unreleased = 0
    /\ surface = size
    /\ settings = surface
    /\ ctx = context
    /\ frame = NoFrame
    /\ displayed = NoFrame
    /\ buttons = [b \in Slots |-> PositionButton]
    /\ captured = [b \in Slots |-> NoPose]
    /\ overwritten = {}
    /\ camera = pose

Init == InitWith(<<300, 150>>, TRUE, HomePose)

\* Mutant: an empty pattern is answered locally, without a search.
Submit_skipEmpty ==
    /\ registered
    /\ nsub < MaxSessions
    /\ LET s == nsub + 1 IN
          /\ nsub' = s
          /\ aborted' = [aborted EXCEPT ![s] = searching]
          /\ searching' = (searchInput # "")
          /\ result' = [result EXCEPT ![s] = <<>>]
          /\ yielded' = [yielded EXCEPT ![s] = <<>>]
          /\ pc' = [pc EXCEPT ![s] =
                       IF searchInput = "" THEN "done" ELSE "consuming"]
          /\ log' = <<Event("newToken", s, <<>>)>>
                 \o (IF searchInput = ""
                        THEN <<>>
                        ELSE <<Event("active", s, <<>>),
                               Event("search", s, searchInput)>>)
    /\ UNCHANGED <<registered, objectHighlightIndices, published, commits,
                   calls, searchInput, renderVars, bookmarkVars>>

\* Mutant: a submit is only handled while no frame is being awaited.
Submit_betweenFrames ==
    /\ registered
    /\ nsub < MaxSessions
    /\ rpc \notin {"rendering", "gettingImage"}
    /\ LET s == nsub + 1 IN
          /\ nsub' = s
          /\ aborted' = [aborted EXCEPT ![s] = searching]
          /\ searching' = TRUE
          /\ result' = [result EXCEPT ![s] = <<>>]
          /\ yielded' = [yielded EXCEPT ![s] = <<>>]
          /\ pc' = [pc EXCEPT ![s] = "consuming"]
          /\ log' = <<Event("newToken", s, <<>>),
                      Event("active", s, <<>>),
                      Event("search", s, searchInput)>>
    /\ UNCHANGED <<registered, objectHighlightIndices, published, commits,
                   calls, searchInput, renderVars, bookmarkVars>>

\* A submit event: the handler runs from line 43 to its first suspension in
\* the for-await at line 55.  The controller created at line 43 is the one
\* line 45 aborts; line 52 passes the element's value as the pattern.
Submit ==
    /\ registered
    /\ nsub < MaxSessions
    /\ LET s == nsub + 1 IN
          /\ nsub' = s
          /\ aborted' = [aborted EXCEPT ![s] = searching]
          /\ searching' = TRUE
          /\ result' = [result EXCEPT ![s] = <<>>]
          /\ yielded' = [yielded EXCEPT ![s] = <<>>]
          /\ pc' = [pc EXCEPT ![s] = "consuming"]
          /\ log' = <<Event("newToken", s, <<>>)>>
                 \o (IF searching
                        THEN <<Event("abort", s, <<>>),
                               Event("inactive", s, <<>>)>>
                        ELSE <<>>)
                 \o <<Event("active", s, <<>>),
                       Event("search", s, searchInput)>>
    /\ UNCHANGED <<registered, objectHighlightIndices, published, commits,
                   calls, searchInput, renderVars, bookmarkVars>>

\* The user edits the search-input element.
Type(text) ==
    /\ text # searchInput
    /\ searchInput' = text
    /\ log' = <<>>
    /\ UNCHANGED <<sessionVars, highlightVars, calls, renderVars, bookmarkVars>>

\* The sequence yields object id: one turn of the for-await body (line 56).
Deliver(s, id) ==
    /\ pc[s] = "consuming"
    /\ ~aborted[s]
    /\ Len(yielded[s]) < MaxMatches
    /\ id \notin Range(yielded[s])
    /\ yielded' = [yielded EXCEPT ![s] = Append(@, id)]
    /\ result' = [result EXCEPT ![s] = push(@, id)]
    /\ log' = <<>>
    /\ UNCHANGED <<searching, registered, nsub, pc, aborted,
                   objectHighlightIndices, published, commits, calls,
                   searchInput, renderVars, bookmarkVars>>

\* Mutant: line 61 is missing, the flag is left as it is.
Complete_flagStays(s) ==
    /\ pc[s] = "consuming"
    /\ objectHighlightIndices' = isolateObjects(objectHighlightIndices, result[s])
    /\ commit
    /\ searching' = searching
    /\ pc' = [pc EXCEPT ![s] = "done"]
    /\ log' = <<Event("isolate", s, result[s]),
                Event("commit", s, <<>>)>>
    /\ aborted' = [aborted EXCEPT ![s] = FALSE]
    /\ result' = [result EXCEPT ![s] = <<>>]
    /\ yielded' = [yielded EXCEPT ![s] = <<>>]
    /\ UNCHANGED <<registered, nsub, calls, searchInput, renderVars,
                   bookmarkVars>>

\* The sequence ends: lines 60-61, then the invocation returns and its
\* locals are gone.
Complete(s) ==
    /\ pc[s] = "consuming"
    /\ objectHighlightIndices' = isolateObjects(objectHighlightIndices, result[s])
    /\ commit
    /\ searching' = FALSE
    /\ pc' = [pc EXCEPT ![s] = "done"]
    /\ log' = <<Event("isolate", s, result[s]),
                Event("commit", s, <<>>),
                Event("inactive", s, <<>>)>>
    /\ aborted' = [aborted EXCEPT ![s] = FALSE]
    /\ result' = [result EXCEPT ![s] = <<>>]
    /\ yielded' = [yielded EXCEPT ![s] = <<>>]
    /\ UNCHANGED <<registered, nsub, calls, searchInput, renderVars,
                   bookmarkVars>>

\* The sequence throws: the for-await rethrows and the handler's promise
\* rejects; nothing after line 55 runs and the invocation's locals are gone.
Fail(s) ==
    /\ pc[s] = "consuming"
    /\ pc' = [pc EXCEPT ![s] = "failed"]
    /\ log' = <<Event("throw", s, <<>>)>>
    /\ aborted' = [aborted EXCEPT ![s] = FALSE]
    /\ result' = [result EXCEPT ![s] = <<>>]
    /\ yielded' = [yielded EXCEPT ![s] = <<>>]
    /\ UNCHANGED <<searching, registered, nsub,
                   objectHighlightIndices, published, commits, calls,
                   searchInput, renderVars, bookmarkVars>>

Next ==
    \/ Submit
    \/ \E text \in Texts : Type(text)
    \/ \E s \in Sessions, id \in Ids : Deliver(s, id)
    \/ \E s \in Sessions : Complete(s)
    \/ \E s \in Sessions : Fail(s)

Spec == Init /\ [][Next]_vars

\* ---- the render loop (main.ts:67-85) ----

\* Lines 69-75: sample the canvas' size, apply it, request a frame.
Iterate == <<Event("readSize", 0, surface),
             Event("applySettings", 0, surface),
             Event("render", 0, <<>>)>>

\* Mutant: getImage is not awaited; the loop requests the next frame.
FrameReady_noAwait ==
    /\ rpc = "rendering"
    /\ outstanding' = outstanding + 1
    /\ settings' = surface
    /\ frame' = [size |-> settings, index |-> published]
    /\ log' = <<Event("getImage", 0, <<>>)>> \o Iterate
    /\ UNCHANGED <<sessionVars, highlightVars, calls, searchInput,
                   rpc, unreleased, surface, ctx, displayed, bookmarkVars>>

\* view.render() resolves (line 75) with a frame of the size applied and of
\* the highlight index as committed; line 78 asks the output for its image.
FrameReady ==
    /\ rpc = "rendering"
    /\ rpc' = "gettingImage"
    /\ frame' = [size |-> settings, index |-> published]
    /\ log' = <<Event("getImage", 0, <<>>)>>
    /\ UNCHANGED <<sessionVars, highlightVars, calls, searchInput,
                   outstanding, unreleased, surface, settings, ctx,
                   displayed, bookmarkVars>>

\* Mutant: the bitmap is never closed.
ImageReady_noClose(image) ==
    /\ rpc = "gettingImage"
    /\ unreleased' = unreleased + (IF image THEN 1 ELSE 0)
    /\ settings' = surface
    /\ rpc' = "rendering"
    /\ outstanding' = (outstanding - 1) + 1
    /\ log' = (IF image
                  THEN <<Event("image", 0, <<>>)>>
                       \o (IF ctx THEN <<Event("transfer", 0, <<>>)>>
                                  ELSE <<>>)
                  ELSE <<>>)
              \o Iterate
    /\ displayed' = IF image /\ ctx THEN frame ELSE displayed
    /\ frame' = NoFrame
    /\ UNCHANGED <<sessionVars, highlightVars, calls, searchInput,
                   surface, ctx, bookmarkVars>>

\* Mutant: the loop body runs once and main returns.
ImageReady_once(image) ==
    /\ rpc = "gettingImage"
    /\ rpc' = "returned"
    /\ outstanding' = outstanding - 1
    /\ log' = (IF image
                  THEN <<Event("image", 0, <<>>)>>
                       \o (IF ctx THEN <<Event("transfer", 0, <<>>)>>
                                  ELSE <<>>)
                       \o <<Event("close", 0, <<>>)>>
                  ELSE <<>>)
    /\ displayed' = IF image /\ ctx THEN frame ELSE displayed
    /\ frame' = NoFrame
    /\ UNCHANGED <<sessionVars, highlightVars, calls, searchInput,
                   unreleased, surface, settings, ctx, bookmarkVars>>

\* Mutant: the size is sampled once and reused by later iterations.
ImageReady_cachedSize(image) ==
    /\ rpc = "gettingImage"
    /\ unreleased' = (unreleased + (IF image THEN 1 ELSE 0))
                        - (IF image THEN 1 ELSE 0)
    /\ settings' = settings
    /\ rpc' = "rendering"
    /\ outstanding' = (outstanding - 1) + 1
    /\ log' = (IF image
                  THEN <<Event("image", 0, <<>>)>>
                       \o (IF ctx THEN <<Event("transfer", 0, <<>>)>>
                                  ELSE <<>>)
                       \o <<Event("close", 0, <<>>)>>
                  ELSE <<>>)
              \o <<Event("applySettings", 0, settings),
                    Event("render", 0, <<>>)>>
    /\ displayed' = IF image /\ ctx THEN frame ELSE displayed
    /\ frame' = NoFrame
    /\ UNCHANGED <<sessionVars, highlightVars, calls, searchInput,
                   surface, ctx, bookmarkVars>>

\* Mutant: the test of line 79 is missing, the canvas is updated and the
\* handle closed whether or not there is a bitmap.
ImageReady_noTest(image) ==
    /\ rpc = "gettingImage"
    /\ unreleased' = unreleased
    /\ settings' = surface
    /\ rpc' = "rendering"
    /\ outstanding' = (outstanding - 1) + 1
    /\ log' = (IF image THEN <<Event("image", 0, <<>>)>> ELSE <<>>)
              \o (IF ctx THEN <<Event("transfer", 0, <<>>)>> ELSE <<>>)
              \o <<Event("close", 0, <<>>)>>
              \o Iterate
    /\ displayed' = IF ctx THEN (IF image THEN frame ELSE NoFrame)
                           ELSE displayed
    /\ frame' = NoFrame
    /\ UNCHANGED <<sessionVars, highlightVars, calls, searchInput,
                   surface, ctx, bookmarkVars>>

\* output.getImage() resolves (line 78) with a bitmap or with nothing:
\* lines 79-83 show and close the bitmap, then the next iteration runs up
\* to its await at line 75.
ImageReady(image) ==
    /\ rpc = "gettingImage"
    /\ unreleased' = (unreleased + (IF image THEN 1 ELSE 0))
                        - (IF image THEN 1 ELSE 0)
    /\ settings' = surface
    /\ rpc' = "rendering"
    /\ outstanding' = (outstanding - 1) + 1
    /\ log' = (IF image
                  THEN <<Event("image", 0, <<>>)>>
                       \o (IF ctx THEN <<Event("transfer", 0, <<>>)>>
                                  ELSE <<>>)
                       \o <<Event("close", 0, <<>>)>>
                  ELSE <<>>)
              \o Iterate
    /\ displayed' = IF image /\ ctx THEN frame ELSE displayed
    /\ frame' = NoFrame
    /\ UNCHANGED <<sessionVars, highlightVars, calls, searchInput,
                   surface, ctx, bookmarkVars>>

\* view.render() or output.getImage() rejects: the await throws inside
\* main, nothing catches it, and the loop is over.
RenderFail ==
    /\ rpc \in {"rendering", "gettingImage"}
    /\ rpc' = "failed"
    /\ outstanding' = outstanding - 1
    /\ frame' = NoFrame
    /\ log' = <<Event("throw", 0, <<>>)>>
    /\ UNCHANGED <<sessionVars, highlightVars, calls, searchInput,
                   unreleased, surface, settings, ctx, displayed,
                   bookmarkVars>>

\* The canvas is resized by the page.
Resize(size) ==
    /\ size # surface
    /\ surface' = size
    /\ log' = <<>>
    /\ UNCHANGED <<sessionVars, highlightVars, calls, searchInput,
                   rpc, outstanding, unreleased, settings, ctx,
                   frame, displayed, bookmarkVars>>

NextRender ==
    \/ FrameReady
    \/ \E image \in BOOLEAN : ImageReady(image)
    \/ RenderFail
    \/ \E size \in Sizes : Resize(size)

InitRender == \E size \in Sizes, context \in BOOLEAN :
                  InitWith(size, context, HomePose)

SpecRender == InitRender /\ [][NextRender]_vars

\* The render loop when the runtime keeps resuming it.
SpecRenderLive ==
    /\ SpecRender
    /\ WF_vars(FrameReady)
    /\ WF_vars(\E image \in BOOLEAN : ImageReady(image))

\* ---- PositionButton (src/unnamed/part_000) ----

\* Mutant: the coordinates are stored in the wrong fields.
capture_swapped(button, cam) ==
    [positionX |-> cam.position[2],
     positionY |-> cam.position[1],
     positionZ |-> cam.position[3],
     rotation |-> cam.rotation]

\* Mutant: only a button still at its default takes a capture.
capture_keepFirst(button, cam) ==
    IF button = PositionButton
       THEN [positionX |-> cam.position[1],
             positionY |-> cam.position[2],
             positionZ |-> cam.position[3],
             rotation |-> cam.rotation]
       ELSE button

\* Lines 25-30: the button's fields after a capture with the camera at cam;
\* the rotation is copied element by element.
capture(button, cam) ==
    [positionX |-> cam.position[1],
     positionY |-> cam.position[2],
     positionZ |-> cam.position[3],
     rotation |-> cam.rotation]

\* Lines 32-33: the arguments of camera.controller.moveTo.
movePosition(button) ==
    [position |-> <<button.positionX, button.positionY, button.positionZ>>,
     rotation |-> button.rotation]

\* Mutant: the second test is not an else-branch, a capture also moves.
MouseDown_fallthrough(b, shiftKey, mouseButton) ==
    /\ b \in DOMAIN buttons
    /\ buttons' = IF shiftKey /\ mouseButton = 0
                     THEN [buttons EXCEPT ![b] = capture(@, camera)]
                     ELSE buttons
    /\ captured' = IF shiftKey /\ mouseButton = 0
                      THEN [captured EXCEPT ![b] = camera]
                      ELSE captured
    /\ overwritten' = IF shiftKey /\ mouseButton = 0
                         THEN IF captured[b] \notin {NoPose, camera}
                                 THEN overwritten \cup {b}
                                 ELSE overwritten \ {b}
                         ELSE overwritten
    /\ log' = <<Event("mousedown", b, <<shiftKey, mouseButton>>)>>
              \o (IF mouseButton = 0
                     THEN <<Event("moveTo", b, movePosition(buttons'[b]))>>
                     ELSE <<>>)
    /\ UNCHANGED <<sessionVars, highlightVars, calls, searchInput,
                   renderVars, camera>>

\* Mutant: the pose is kept in one place shared by all the buttons.
MouseDown_shared(b, shiftKey, mouseButton) ==
    /\ b \in DOMAIN buttons
    /\ buttons' = IF shiftKey /\ mouseButton = 0
                     THEN [c \in Slots |-> capture(buttons[c], camera)]
                     ELSE buttons
    /\ captured' = IF shiftKey /\ mouseButton = 0
                      THEN [captured EXCEPT ![b] = camera]
                      ELSE captured
    /\ overwritten' = IF shiftKey /\ mouseButton = 0
                         THEN IF captured[b] \notin {NoPose, camera}
                                 THEN overwritten \cup {b}
                                 ELSE overwritten \ {b}
                         ELSE overwritten
    /\ log' = <<Event("mousedown", b, <<shiftKey, mouseButton>>)>>
              \o (IF ~shiftKey /\ mouseButton = 0
                     THEN <<Event("moveTo", b, movePosition(buttons[b]))>>
                     ELSE <<>>)
    /\ UNCHANGED <<sessionVars, highlightVars, calls, searchInput,
                   renderVars, camera>>

\* Mutant: a recall uses the bookmark up, the button returns to its default.
MouseDown_consume(b, shiftKey, mouseButton) ==
    /\ b \in DOMAIN buttons
    /\ buttons' = IF shiftKey /\ mouseButton = 0
                     THEN [buttons EXCEPT ![b] = capture(@, camera)]
                     ELSE IF mouseButton = 0
                             THEN [buttons EXCEPT ![b] = PositionButton]
                             ELSE buttons
    /\ captured' = IF shiftKey /\ mouseButton = 0
                      THEN [captured EXCEPT ![b] = camera]
                      ELSE captured
    /\ overwritten' = IF shiftKey /\ mouseButton = 0
                         THEN IF captured[b] \notin {NoPose, camera}
                                 THEN overwritten \cup {b}
                                 ELSE overwritten \ {b}
                         ELSE overwritten
    /\ log' = <<Event("mousedown", b, <<shiftKey, mouseButton>>)>>
              \o (IF ~shiftKey /\ mouseButton = 0
                     THEN <<Event("moveTo", b, movePosition(buttons[b]))>>
                     ELSE <<>>)
    /\ UNCHANGED <<sessionVars, highlightVars, calls, searchInput,
                   renderVars, camera>>

\* button.onmousedown (lines 23-35) of button b.
MouseDown(b, shiftKey, mouseButton) ==
    /\ b \in DOMAIN buttons
    /\ buttons' = IF shiftKey /\ mouseButton = 0
                     THEN [buttons EXCEPT ![b] = capture(@, camera)]
                     ELSE buttons
    /\ captured' = IF shiftKey /\ mouseButton = 0
                      THEN [captured EXCEPT ![b] = camera]
                      ELSE captured
    /\ overwritten' = IF shiftKey /\ mouseButton = 0
                         THEN IF captured[b] \notin {NoPose, camera}
                                 THEN overwritten \cup {b}
                                 ELSE overwritten \ {b}
                         ELSE overwritten
    /\ log' = <<Event("mousedown", b, <<shiftKey, mouseButton>>)>>
              \o (IF ~shiftKey /\ mouseButton = 0
                     THEN <<Event("moveTo", b, movePosition(buttons[b]))>>
                     ELSE <<>>)
    /\ UNCHANGED <<sessionVars, highlightVars, calls, searchInput,
                   renderVars, camera>>

\* Mutant: a captured button holds the camera's own rotation array, not a
\* copy, so its rotation follows the camera.
CameraMove_aliased(pose) ==
    /\ pose # camera
    /\ camera' = pose
    /\ buttons' = [b \in DOMAIN buttons |->
                       IF captured[b] # NoPose
                          THEN [buttons[b] EXCEPT !.rotation = pose.rotation]
                          ELSE buttons[b]]
    /\ log' = <<>>
    /\ UNCHANGED <<sessionVars, highlightVars, calls, searchInput,
                   renderVars, captured, overwritten>>

\* The controller moves the camera: the user flies it, or it arrives where a
\* moveTo sent it.
CameraMove(pose) ==
    /\ pose # camera
    /\ camera' = pose
    /\ log' = <<>>
    /\ UNCHANGED <<sessionVars, highlightVars, calls, searchInput,
                   renderVars, buttons, captured, overwritten>>

NextBookmark ==
    \/ \E b \in Slots, shiftKey \in BOOLEAN, mouseButton \in MouseButtons :
          MouseDown(b, shiftKey, mouseButton)
    \/ \E pose \in Poses \cup {movePosition(buttons[b]) : b \in Slots} :
          CameraMove(pose)

InitBookmark == \E pose \in Poses : InitWith(<<300, 150>>, TRUE, pose)

SpecBookmark == InitBookmark /\ [][NextBookmark]_vars

\* ---- the handlers and the render loop side by side ----

\* The submit handlers and the render loop interleaved, with the search
\* input and the canvas left as they are.
NextView ==
    \/ Submit
    \/ \E s \in Sessions, id \in Ids : Deliver(s, id)
    \/ \E s \in Sessions : Complete(s)
    \/ \E s \in Sessions : Fail(s)
    \/ FrameReady
    \/ \E image \in BOOLEAN : ImageReady(image)
    \/ RenderFail

SpecView == Init /\ [][NextView]_vars

\* For progress it does not matter which objects a search matches: here
\* every search matches the first object or nothing.
NextLive ==
    \/ Submit
    \/ \E s \in Sessions : Deliver(s, 0)
    \/ \E s \in Sessions : Complete(s)
    \/ \E s \in Sessions : Fail(s)
    \/ FrameReady
    \/ \E image \in BOOLEAN : ImageReady(image)
    \/ RenderFail

\* The handlers and the render loop when the runtime keeps resuming the
\* render loop and every match sequence ends or throws after finitely many
\* matches.
SpecLive ==
    /\ Init /\ [][NextLive]_vars
    /\ WF_vars(FrameReady)
    /\ WF_vars(\E image \in BOOLEAN : ImageReady(image))
    /\ \A s \in Sessions : WF_vars(Complete(s) \/ Fail(s))

\* ---- main from its first line (main.ts:12-75) ----

\* main suspended in its first await (line 16): nothing of lines 27-85 has
\* run, so there is no view, no button and no listener.
InitMain ==
    /\ searching = FALSE
    /\ registered = FALSE
    /\ nsub = 0
    /\ pc = [s \in Sessions |-> "idle"]
    /\ aborted = [s \in Sessions |-> FALSE]
    /\ result = [s \in Sessions |-> <<>>]
    /\ yielded = [s \in Sessions |-> <<>>]
    /\ objectHighlightIndices = [i \in Ids |-> Visible]
    /\ published = [i \in Ids |-> Visible]
    /\ commits = 0
    /\ log = <<>>
    /\ calls = <<>>
    /\ searchInput = ""
    /\ rpc = "loadScene"
    /\ outstanding = 0
    /\ unreleased = 0
    /\ surface = <<300, 150>>
    /\ settings = <<>>
    /\ ctx = FALSE
    /\ frame = NoFrame
    /\ displayed = NoFrame
    /\ buttons = <<>>
    /\ captured = <<>>
    /\ overwritten = {}
    /\ camera = HomePose

\* Mutant: an error response is not thrown, main goes on with it.
LoadSceneResolves_noThrow(error) ==
    /\ rpc = "loadScene"
    /\ rpc' = "createView"
    /\ log' = <<Event("loadScene", 0, IF error THEN "error" ELSE "data")>>
    /\ UNCHANGED <<sessionVars, highlightVars, calls, searchInput,
                   outstanding, unreleased, surface, settings, ctx, frame,
                   displayed, bookmarkVars>>

\* dataApi.loadScene resolves (lines 16-25): a response with an error
\* member is thrown by the then-callback, which rejects main's promise;
\* otherwise main goes on to createView (line 28).
LoadSceneResolves(error) ==
    /\ rpc = "loadScene"
    /\ rpc' = IF error THEN "initFailed" ELSE "createView"
    /\ log' = <<Event("loadScene", 0, IF error THEN "error" ELSE "data")>>
              \o (IF error THEN <<Event("throw", 0, <<>>)>> ELSE <<>>)
    /\ UNCHANGED <<sessionVars, highlightVars, calls, searchInput,
                   outstanding, unreleased, surface, settings, ctx, frame,
                   displayed, bookmarkVars>>

\* api.createView resolves (line 28); line 33 sets the controller and line
\* 34 starts loading the scene.
ViewCreated ==
    /\ rpc = "createView"
    /\ rpc' = "sceneLoad"
    /\ log' = <<Event("createView", 0, <<>>)>>
    /\ UNCHANGED <<sessionVars, highlightVars, calls, searchInput,
                   outstanding, unreleased, surface, settings, ctx, frame,
                   displayed, bookmarkVars>>

\* One of the awaits of lines 16, 28, 34 rejects: main has no try, so its
\* promise rejects and nothing below the await runs.
InitReject ==
    /\ rpc \in {"loadScene", "createView", "sceneLoad"}
    /\ rpc' = "initFailed"
    /\ log' = <<Event("reject", 0, rpc), Event("throw", 0, <<>>)>>
    /\ UNCHANGED <<sessionVars, highlightVars, calls, searchInput,
                   outstanding, unreleased, surface, settings, ctx, frame,
                   displayed, bookmarkVars>>

\* api.loadScene resolves (line 34): lines 36-75 get the context, create
\* the buttons, register the submit listener and run the first iteration of
\* the loop up to its await.
SceneLoaded ==
    /\ rpc = "sceneLoad"
    /\ ctx' = TRUE
    /\ buttons' = [b \in Slots |-> PositionButton]
    /\ captured' = [b \in Slots |-> NoPose]
    /\ searching' = FALSE
    /\ registered' = TRUE
    /\ settings' = surface
    /\ outstanding' = outstanding + 1
    /\ rpc' = "rendering"
    /\ log' = <<Event("createButtons", 0, <<NumSlots>>),
                Event("addEventListener", 0, "submit")>> \o Iterate
    /\ UNCHANGED <<nsub, pc, aborted, result, yielded, highlightVars, calls,
                   searchInput, unreleased, surface, frame, displayed,
                   overwritten, camera>>

\* All of main: start-up, then the submit handlers, the render loop and the
\* buttons side by side.  Searches match the first object or nothing, the
\* buttons are pressed with the primary button, and the camera stays where
\* the scene put it.
NextMain ==
    \/ \E error \in BOOLEAN : LoadSceneResolves(error)
    \/ ViewCreated
    \/ InitReject
    \/ SceneLoaded
    \/ Submit
    \/ \E s \in Sessions : Deliver(s, 0)
    \/ \E s \in Sessions : Complete(s)
    \/ \E s \in Sessions : Fail(s)
    \/ FrameReady
    \/ \E image \in BOOLEAN : ImageReady(image)
    \/ RenderFail
    \/ \E b \in Slots, shiftKey \in BOOLEAN : MouseDown(b, shiftKey, 0)

SpecMain == InitMain /\ [][NextMain]_vars

\* ---- isolateObjects on its own: any prior index, any id list ----

InitIsolate ==
    /\ searching = FALSE
    /\ registered = TRUE
    /\ nsub = 0
    /\ pc = [s \in Sessions |-> "idle"]
    /\ aborted = [s \in Sessions |-> FALSE]
    /\ result = [s \in Sessions |-> <<>>]
    /\ yielded = [s \in Sessions |-> <<>>]
    /\ objectHighlightIndices \in [Ids -> PriorGroups]
    /\ published = objectHighlightIndices
    /\ commits = 0
    /\ log = <<>>
    /\ calls = <<>>
    /\ searchInput = ""
    /\ rpc = "rendering"
    /\ outstanding = 1
    /\ unreleased = 0
    /\ surface = <<300, 150>>
    /\ settings = surface
    /\ ctx = TRUE
    /\ frame = NoFrame
    /\ displayed = NoFrame
    /\ buttons = [b \in Slots |-> PositionButton]
    /\ captured = [b \in Slots |-> NoPose]
    /\ overwritten = {}
    /\ camera = HomePose

IsolateCall(ids) ==
    /\ Len(calls) < MaxCalls
    /\ objectHighlightIndices' = isolateObjects(objectHighlightIndices, ids)
    /\ commit
    /\ calls' = Append(calls, [ids |-> ids,
                               before |-> objectHighlightIndices,
                               after |-> objectHighlightIndices',
                               published |-> published',
                               commits |-> commits' - commits])
    /\ UNCHANGED <<sessionVars, log, searchInput, renderVars, bookmarkVars>>

NextIsolate == \E ids \in MatchSeqs : IsolateCall(ids)

SpecIsolate == InitIsolate /\ [][NextIsolate]_vars

\* ---- reading the log ----

\* Positions in stretch l of the events of kind e that concern session s.
Pos(l, e, s) == {i \in DOMAIN l : l[i].ev = e /\ l[i].s = s}

\* The index that shows exactly the objects of ids and hides the rest.
Shown(ids) == [i \in Ids |-> IF i \in Range(ids) THEN Visible ELSE Hidden]

\* ---- the search-and-isolate pipeline ----

\* C1: whenever a query B is submitted while an earlier session A is still
\* consuming matches, A's cancellation token is triggered before B's token
\* is created, and A never goes on to call isolate.
C1_SupersessionCancelsOlder ==
    [][\A a \in Sessions :
          pc[a] = "consuming" =>
              /\ nsub' = nsub + 1 =>
                    \E j \in Pos(log', "abort", a) :
                        \A i \in Pos(log', "newToken", nsub') : j < i
              /\ nsub > a => Pos(log', "isolate", a) = {}]_vars

\* C2: at most one search session is active: never more than one search
\* whose sequence is still being consumed with an un-triggered token.
C2_AtMostOneActiveSession ==
    Cardinality({s \in Sessions : pc[s] = "consuming" /\ ~aborted[s]}) <= 1

\* C3 (Scenario B): Q1 is submitted, Q2 is submitted before Q1's sequence
\* completes, and Q2's sequence completes: then Q1's token is cancelled, Q1
\* does not go on to isolate, and the committed index shows exactly Q2's
\* matches at group 0 and every other object at group 255 (everything at
\* group 0 when Q2 matched nothing).
C3_ScenarioB ==
    [][(nsub = 2 /\ pc[1] = "consuming" /\ pc[2] = "consuming") =>
          /\ pc'[1] # "done"
          /\ pc'[2] = "done" =>
                /\ aborted[1]
                /\ published' = IF yielded[2] = <<>>
                                   THEN [i \in Ids |-> Visible]
                                   ELSE Shown(yielded[2])]_vars

\* C4: isolate is only ever called with the full id list of a session that
\* ran to normal completion and whose cancellation token was never triggered.
C4_IsolateOnlyUncancelledFull ==
    [][\A s \in Sessions :
          Pos(log', "isolate", s) # {} =>
              \/ UNCHANGED vars
              \/ /\ ~aborted[s]
                 /\ \A i \in Pos(log', "isolate", s) :
                       log'[i].ids = yielded[s]]_vars

\* C5: when a search's match sequence fails with a non-cancellation error,
\* the highlight index is left unmodified, nothing is committed, and the
\* search-active flag is cleared.
C5_FailureClearsFlag ==
    [][\A s \in Sessions :
          (pc[s] = "consuming" /\ pc'[s] = "failed" /\ ~aborted[s]) =>
              /\ objectHighlightIndices' = objectHighlightIndices
              /\ published' = published
              /\ commits' = commits
              /\ searching' = FALSE]_vars

\* C6: when a session's match sequence completes normally without
\* cancellation, isolate is called exactly once, with exactly the ids the
\* sequence yielded, in yield order, and the handler marks the session
\* inactive only after that call; the session calls isolate at no other time.
C6_CompletionIsolatesOnceInOrder ==
    [][\A s \in Sessions :
          /\ (pc[s] = "consuming" /\ pc'[s] = "done" /\ ~aborted[s]) =>
                /\ Pos(log', "isolate", s) = {1}
                /\ log'[1].ids = yielded[s]
                /\ Pos(log', "inactive", s) = {Len(log')}
                /\ Len(log') > 1
                /\ searching' = FALSE
          /\ Pos(log', "isolate", s) # {} =>
                (pc[s] = "consuming" /\ pc'[s] = "done")]_vars

C6_Witness ==
    /\ Len(log) = 3
    /\ log[1].ev = "isolate"
    /\ Len(log[1].ids) = 2
    /\ pc[log[1].s] = "done"
    /\ log[3].ev = "inactive"
    /\ published = Shown(log[1].ids)

\* ---- isolateObjects as a function of the prior index and the id list ----

\* C7 (P2): for every non-empty id list and every prior index, after
\* isolate(S) every id in S has group 0 and every other id has group 255.
C7_IsolateSubset ==
    \A k \in DOMAIN calls :
        calls[k].ids # <<>> =>
            \A i \in Ids :
                calls[k].after[i] =
                    IF i \in Range(calls[k].ids) THEN Visible ELSE Hidden

C7_Witness ==
    \E k \in DOMAIN calls :
        /\ calls[k].ids # <<>>
        /\ \E i \in Ids :
              /\ i \notin Range(calls[k].ids)
              /\ calls[k].before[i] # Hidden
              /\ calls[k].after[i] = Hidden
        /\ \E i \in Range(calls[k].ids) :
              /\ calls[k].before[i] # Visible
              /\ calls[k].after[i] = Visible

\* C8 (P1): for every prior index, isolate([]) sets every object's group
\* to 0 and performs exactly one commit.
C8_IsolateEmpty ==
    \A k \in DOMAIN calls :
        calls[k].ids = <<>> =>
            /\ \A i \in Ids : calls[k].after[i] = Visible
            /\ calls[k].commits = 1
            /\ calls[k].published = calls[k].after

C8_Witness ==
    \E k \in DOMAIN calls :
        /\ calls[k].ids = <<>>
        /\ \E i \in Ids : calls[k].before[i] = Hidden
        /\ \E i \in Ids : calls[k].before[i] = 1
        /\ \A i \in Ids : calls[k].after[i] = Visible

\* C9 (P3): calling isolate(S) twice in a row leaves the index in the same
\* state as calling it once.
C9_IsolateIdempotent ==
    \A k \in DOMAIN calls :
        (k + 1 \in DOMAIN calls
            /\ Range(calls[k].ids) = Range(calls[k + 1].ids)) =>
                calls[k + 1].after = calls[k].after

C9_Witness ==
    \E k \in DOMAIN calls :
        /\ k + 1 \in DOMAIN calls
        /\ calls[k].ids = calls[k + 1].ids
        /\ calls[k].ids # <<>>
        /\ calls[k].before # calls[k].after
        /\ calls[k + 1].after = calls[k].after

\* C10: results never accumulate: the index after isolate(S1) followed by
\* isolate(S2) equals the index after isolate(S2) alone on the same prior
\* index.
C10_NoAccumulation ==
    \A k \in DOMAIN calls :
        k + 1 \in DOMAIN calls =>
            calls[k + 1].after =
                isolateObjects(calls[k].before, calls[k + 1].ids)

C10_Witness ==
    \E k \in DOMAIN calls :
        /\ k + 1 \in DOMAIN calls
        /\ calls[k].ids # <<>>
        /\ calls[k + 1].ids # <<>>
        /\ \E i \in Range(calls[k].ids) :
              /\ i \notin Range(calls[k + 1].ids)
              /\ calls[k].before[i] # Visible
              /\ calls[k].after[i] = Visible
              /\ calls[k + 1].after[i] = Hidden

\* ---- the render loop ----

\* C17: render-loop iterations execute strictly in sequence: a new frame is
\* never requested while an earlier frame request, or the retrieval of its
\* image, is still outstanding.
C17_NoOverlappingFrames ==
    /\ outstanding \in 0..1
    /\ rpc \in {"rendering", "gettingImage"} => outstanding = 1
    /\ Cardinality(Pos(log, "render", 0)) <= 1

C17_Witness ==
    /\ rpc = "rendering"
    /\ outstanding = 1
    /\ displayed # NoFrame
    /\ Pos(log, "render", 0) # {}

\* C18: every image handle obtained from a frame is released exactly once,
\* after its transfer to the display surface and before the next frame
\* request, and two unreleased handles are never held.
C18_ImageReleasedOnce ==
    /\ [](unreleased = 0)
    /\ [][(rpc = "gettingImage" /\ rpc' # "gettingImage") =>
             LET got == Pos(log', "image", 0)
                 shown == Pos(log', "transfer", 0)
                 closed == Pos(log', "close", 0)
                 next == Pos(log', "render", 0)
             IN  /\ Cardinality(got) <= 1
                 /\ Cardinality(closed) = Cardinality(got)
                 /\ \A g \in got, c \in closed : g < c
                 /\ \A x \in shown, c \in closed : x < c
                 /\ \A c \in closed, r \in next : c < r
                 /\ (ctx /\ got # {}) => Cardinality(shown) = 1]_vars

C18_Witness ==
    /\ Len(log) = 6
    /\ log[1].ev = "image"
    /\ log[2].ev = "transfer"
    /\ log[3].ev = "close"
    /\ log[6].ev = "render"
    /\ unreleased = 0

\* C19: the render loop runs indefinitely: as long as no frame request
\* fails, another frame request is always eventually issued and the loop
\* never reaches a terminated state.
C19_LoopRunsForever ==
    [](rpc # "failed") =>
        /\ []<>(rpc = "rendering")
        /\ []<>(rpc = "gettingImage")
        /\ [](rpc \in {"rendering", "gettingImage"})

C19_Witness ==
    /\ rpc = "rendering"
    /\ displayed # NoFrame
    /\ displayed.size # surface
    /\ Pos(log, "render", 0) # {}

\* ---- the camera bookmarks ----

\* The press in stretch l is a capture gesture on button b: primary button
\* with shift held.
IsCapture(l, b) ==
    l # <<>> /\ l[1] = Event("mousedown", b, <<TRUE, 0>>)

\* The press in stretch l is a recall gesture on button b: plain primary
\* button.
IsRecall(l, b) ==
    l # <<>> /\ l[1] = Event("mousedown", b, <<FALSE, 0>>)

\* The poses the stretch l passed to moveTo.
MoveTos(l) == {i \in DOMAIN l : l[i].ev = "moveTo"}

\* C12 (P5): a capture gesture on a slot while the camera is at P, followed
\* by a recall gesture on the same slot, results in a moveTo call whose
\* position and orientation are exactly P.
C12_BookmarkRoundTrip ==
    [][\A b \in Slots :
          (IsRecall(log', b) /\ captured[b] # NoPose) =>
              /\ Cardinality(MoveTos(log')) = 1
              /\ \A i \in MoveTos(log') : log'[i].ids = captured[b]]_vars

C12_Witness ==
    \E b \in Slots :
        /\ IsRecall(log, b)
        /\ captured[b] \in Poses
        /\ captured[b] # camera
        /\ captured[b] # HomePose
        /\ Len(log) = 2
        /\ log[2] = Event("moveTo", b, captured[b])

\* C13 (P6): a recall gesture on a slot on which no capture has occurred
\* results in a moveTo call with the zero position and the identity
\* orientation.
C13_DefaultRecallIdentity ==
    [][\A b \in Slots :
          (IsRecall(log', b) /\ captured[b] = NoPose) =>
              /\ Cardinality(MoveTos(log')) = 1
              /\ \A i \in MoveTos(log') :
                    log'[i].ids = [position |-> <<0, 0, 0>>,
                                   rotation |-> <<0, 0, 0, 1>>]]_vars

\* C14: a single primary-button press either overwrites the stored pose and
\* issues no moveTo (modifier held), or issues exactly one moveTo and leaves
\* the stored pose unchanged (no modifier); never both.
C14_CaptureRecallExclusive ==
    [][\A b \in Slots :
          /\ IsCapture(log', b) =>
                /\ movePosition(buttons'[b]) = camera
                /\ MoveTos(log') = {}
          /\ IsRecall(log', b) =>
                /\ Cardinality(MoveTos(log')) = 1
                /\ buttons' = buttons]_vars

C14_Witness ==
    \E b \in Slots :
        /\ IsCapture(log, b)
        /\ Len(log) = 1
        /\ movePosition(buttons[b]) = camera
        /\ camera # HomePose

\* C15: bookmark slots are independent: a capture on one slot leaves the
\* stored pose of every other slot unchanged, and a recall on slot i moves
\* to the pose most recently captured on slot i, or to the default pose of a
\* new button if there was none.
C15_SlotsIndependent ==
    [][\A b \in Slots :
          /\ IsCapture(log', b) =>
                \A c \in Slots \ {b} : buttons'[c] = buttons[c]
          /\ IsRecall(log', b) =>
                \A i \in MoveTos(log') :
                    log'[i].ids = IF captured[b] = NoPose
                                     THEN movePosition(PositionButton)
                                     ELSE captured[b]]_vars

C15_Witness ==
    \E b, c \in Slots :
        /\ b # c
        /\ IsRecall(log, b)
        /\ captured[b] \in Poses
        /\ captured[c] \in Poses
        /\ captured[b] # captured[c]
        /\ log[2] = Event("moveTo", b, captured[b])

\* ---- the handlers against the render loop ----

\* C11: a render never observes a partially updated highlight index: no
\* frame reads an index state that lies between the first write of an
\* isolate call and that call's commit.
C11_NoPartialIndexRendered ==
    /\ [](published = objectHighlightIndices)
    /\ [][(rpc = "rendering" /\ rpc' = "gettingImage") =>
             /\ frame'.index = objectHighlightIndices
             /\ frame'.index = published]_vars

C11_Witness ==
    /\ rpc = "gettingImage"
    /\ \E i, j \in Ids : frame.index[i] = Hidden /\ frame.index[j] = Visible
    /\ commits > 0
    /\ \E s \in Sessions : pc[s] = "consuming" /\ result[s] # <<>>

\* C16 (Scenario C): every submit event issues one search call whose pattern
\* is the submitted text verbatim, the empty string included.
C16_PatternForwardedVerbatim ==
    [][nsub' = nsub + 1 =>
          LET issued == {i \in DOMAIN log' : log'[i].ev = "search"} IN
              /\ Cardinality(issued) = 1
              /\ \A i \in issued :
                    /\ log'[i].s = nsub'
                    /\ log'[i].ids = searchInput]_vars

C16_Witness ==
    /\ nsub > 1
    /\ searchInput = ""
    /\ pc[nsub] = "consuming"
    /\ log # <<>>
    /\ log[Len(log)] = Event("search", nsub, "")

\* C20: the render loop's suspension does not block other activity: while a
\* frame request is pending a submit event or a bookmark gesture can still
\* be handled, and every submitted query is eventually processed although
\* the render loop never ends.
C20_RenderDoesNotBlock ==
    /\ [](rpc \in {"rendering", "gettingImage"} =>
             /\ nsub < MaxSessions => ENABLED Submit
             /\ \A b \in Slots : ENABLED MouseDown(b, FALSE, 0)
             /\ \A b \in Slots : ENABLED MouseDown(b, TRUE, 0))
    /\ \A s \in Sessions :
          (pc[s] = "consuming") ~> (pc[s] \in {"done", "failed"})

C20_Witness ==
    /\ rpc = "rendering"
    /\ displayed # NoFrame
    /\ nsub = MaxSessions
    /\ \A s \in Sessions : pc[s] \in {"done", "failed"}
    /\ \E s \in Sessions : pc[s] = "done"
    /\ \E i \in Ids : displayed.index[i] = Hidden

\* ---- failures ----

\* C21: when a frame request fails the loop is still running afterwards:
\* after a frame-production failure a further frame request is eventually
\* issued.
C21_LoopSurvivesFrameFailure ==
    [](Pos(log, "throw", 0) # {} =>
          <>(rpc = "rendering" /\ Pos(log, "render", 0) # {}))

\* The stretch l saw the loading of the scene fail: an error response, or
\* a rejection of one of the two load requests.
SceneLoadFailed(l) ==
    \E i \in DOMAIN l :
        \/ l[i].ev = "loadScene" /\ l[i].ids = "error"
        \/ l[i].ev = "reject" /\ l[i].ids \in {"loadScene", "sceneLoad"}

\* C22: when loading the scene fails, the failure propagates out of main,
\* and from then on there is no render-loop iteration, no registered search
\* handler and no bookmark button.
C22_SceneLoadFailureIsFatal ==
    /\ [][SceneLoadFailed(log') =>
             /\ log'[Len(log')].ev = "throw"
             /\ rpc' = "initFailed"]_vars
    /\ [](rpc = "initFailed" =>
             /\ ~registered
             /\ buttons = <<>>
             /\ outstanding = 0
             /\ settings = <<>>
             /\ nsub = 0
             /\ Pos(log, "render", 0) = {}
             /\ ~ENABLED Submit
             /\ ~ENABLED FrameReady
             /\ \A b \in Slots : ~ENABLED MouseDown(b, FALSE, 0))
    /\ [][rpc = "initFailed" => rpc' = "initFailed"]_vars

C22_Witness ==
    /\ rpc = "initFailed"
    /\ Len(log) = 2
    /\ log[1].ev = "loadScene"
    /\ log[1].ids = "error"
    /\ log[2].ev = "throw"

\* C23: cancellation is not an error: a session whose token was triggered
\* raises no failure from the submit handler and isolates nothing, and
\* afterwards the controller is ready: a query submitted while no session is
\* consuming gets an un-triggered token, and an un-cancelled query that
\* completes leaves exactly its matches isolated.
C23_CancellationIsNotAnError ==
    [][/\ \A s \in Sessions :
             (pc[s] = "consuming" /\ aborted[s]) =>
                 /\ pc'[s] # "failed"
                 /\ Pos(log', "isolate", s) = {}
       /\ (nsub' = nsub + 1 /\ \A s \in Sessions : pc[s] # "consuming") =>
             ~aborted'[nsub']
       /\ \A s \in Sessions :
             (pc[s] = "consuming" /\ pc'[s] = "done" /\ ~aborted[s]) =>
                 published' = IF yielded[s] = <<>>
                                 THEN [i \in Ids |-> Visible]
                                 ELSE Shown(yielded[s])]_vars

\* C24: once session N+1 has isolated, session N appends no further id and
\* makes no isolate call.
C24_CancelAcknowledgedBeforeNextIsolate ==
    [][\A n \in Sessions :
          (n + 1 \in Sessions /\ pc[n + 1] = "done") =>
              /\ Len(result'[n]) <= Len(result[n])
              /\ Pos(log', "isolate", n) = {}]_vars

\* C25: every search call is issued with a token created in the same
\* handler run and not triggered when the search is issued, whether or not
\* a session was active at submit time.
C25_FreshUntriggeredToken ==
    [][nsub' = nsub + 1 =>
          /\ Pos(log', "newToken", nsub') # {}
          /\ \A i \in Pos(log', "search", nsub') :
                \A j \in Pos(log', "abort", nsub') : i < j
          /\ ~aborted'[nsub']]_vars

\* ---- completion ----

\* Scenario A on isolateObjects: objects 1..5000, matches 12, 99, 4000.
ScenarioA ==
    isolateObjects([i \in 0..5000 |-> Visible], <<12, 99, 4000>>)
        = [i \in 0..5000 |-> IF i \in {12, 99, 4000} THEN Visible ELSE Hidden]

\* C26: every completed search results in exactly one commit, a commit only
\* happens as the last step of an isolate call, and the committed index has
\* exactly the matches at group 0 and all others at 255 (Scenario A: 5000
\* objects, matches 12, 99 and 4000).
C26_OneCommitPerCompletedSearch ==
    /\ ScenarioA
    /\ [][/\ \A s \in Sessions :
                (pc[s] = "consuming" /\ pc'[s] = "done") =>
                    /\ commits' = commits + 1
                    /\ Pos(log', "isolate", s) = {1}
                    /\ Pos(log', "commit", s) = {2}
                    /\ published' = objectHighlightIndices'
                    /\ (~aborted[s] /\ yielded[s] # <<>>) =>
                          published' = Shown(yielded[s])
          /\ commits' # commits =>
                \E s \in Sessions : pc[s] = "consuming" /\ pc'[s] = "done"
          /\ \A i \in DOMAIN log' :
                log'[i].ev = "commit" =>
                    /\ i > 1
                    /\ log'[i - 1].ev = "isolate"
                    /\ log'[i - 1].s = log'[i].s]_vars

C26_Witness ==
    /\ nsub = 1
    /\ commits = 1
    /\ Len(log) = 3
    /\ log[2].ev = "commit"
    /\ Len(log[1].ids) = 1
    /\ published = Shown(log[1].ids)
    /\ \E i \in Ids : published[i] = Hidden

\* C27: a search that completes with zero matches shows everything:
\* afterwards every object is in group 0, whatever was isolated before.
C27_EmptyResultShowsAll ==
    [][\A s \in Sessions :
          (pc[s] = "consuming" /\ pc'[s] = "done" /\ result[s] = <<>>) =>
              /\ \A i \in Ids : objectHighlightIndices'[i] = Visible
              /\ \A i \in Ids : published'[i] = Visible]_vars

C27_Witness ==
    /\ Len(log) = 3
    /\ log[1].ev = "isolate"
    /\ log[1].ids = <<>>
    /\ displayed # NoFrame
    /\ \E i \in Ids : displayed.index[i] = Hidden
    /\ \A i \in Ids : published[i] = Visible

\* ---- the iterations of the render loop ----

\* C28: every frame request is preceded, in the same iteration, by a read
\* of the surface's size and by applying that size to the settings; no
\* frame is requested with a size sampled earlier.
C28_SizeSampledEachIteration ==
    [][\A r \in Pos(log', "render", 0) :
          /\ r > 2
          /\ log'[r - 2] = Event("readSize", 0, surface')
          /\ log'[r - 1] = Event("applySettings", 0, surface')
          /\ settings' = surface']_vars

C28_Witness ==
    /\ rpc = "rendering"
    /\ Pos(log, "render", 0) # {}
    /\ displayed # NoFrame
    /\ displayed.size # settings
    /\ settings = surface
    /\ Pos(log, "applySettings", 0) # {}

\* C29: when a frame yields no image, the iteration makes no display
\* transfer and no release, the displayed image stays as it was, and the
\* loop goes on to the next frame request.
C29_NoImageSkipsDisplay ==
    [][(/\ rpc = "gettingImage"
        /\ rpc' # "gettingImage"
        /\ Pos(log', "image", 0) = {}
        /\ Pos(log', "throw", 0) = {}) =>
            /\ Pos(log', "transfer", 0) = {}
            /\ Pos(log', "close", 0) = {}
            /\ displayed' = displayed
            /\ unreleased' = unreleased
            /\ rpc' = "rendering"
            /\ Cardinality(Pos(log', "render", 0)) = 1]_vars

C29_Witness ==
    /\ rpc = "rendering"
    /\ displayed # NoFrame
    /\ Len(log) = 3
    /\ log[1].ev = "readSize"
    /\ log[3].ev = "render"

\* C30: a slot's stored pose is changed only by a capture gesture on that
\* slot; recalls, render-loop iterations and search handlers leave every
\* stored pose as it is, and a recall issues the pose that is still stored
\* after it, so that two recalls in a row issue the same pose.
C30_PoseChangedOnlyByCapture ==
    [][/\ \A b \in DOMAIN buttons :
             /\ b \in DOMAIN buttons'
             /\ buttons'[b] # buttons[b] => IsCapture(log', b)
       /\ \A b \in Slots :
             IsRecall(log', b) =>
                 /\ buttons' = buttons
                 /\ \A i \in MoveTos(log') :
                       log'[i].ids = movePosition(buttons'[b])]_vars

C30_Witness ==
    /\ \E b \in Slots :
          /\ IsRecall(log, b)
          /\ captured[b] # NoPose
          /\ Len(log) = 2
          /\ log[2] = Event("moveTo", b, captured[b])
    /\ \E s \in Sessions : pc[s] = "done"
    /\ displayed # NoFrame


\* ---- captured poses ----

\* C31: a capture overwrites whatever the slot held: after any sequence of
\* captures on one slot a recall issues moveTo with the position and the
\* orientation of the latest capture.
C31_CaptureOverwrites ==
    [][\A b \in Slots :
          /\ IsCapture(log', b) =>
                /\ movePosition(buttons'[b]).position = camera.position
                /\ movePosition(buttons'[b]).rotation = camera.rotation
          /\ (IsRecall(log', b) /\ captured[b] # NoPose) =>
                /\ MoveTos(log') # {}
                /\ \A i \in MoveTos(log') :
                      /\ log'[i].ids.position = captured[b].position
                      /\ log'[i].ids.rotation = captured[b].rotation]_vars

C31_Witness ==
    \E b \in overwritten :
        /\ IsRecall(log, b)
        /\ Len(log) = 2
        /\ log[2] = Event("moveTo", b, captured[b])

\* C33: a captured pose is a snapshot: moving the camera afterwards, also
\* to where another slot's recall sent it, changes no stored pose, and a
\* later recall issues the captured pose, not the camera's current one.
C33_CaptureIsSnapshot ==
    [][/\ camera' # camera => buttons' = buttons
       /\ \A b \in Slots :
             (IsRecall(log', b) /\ captured[b] \notin {NoPose, camera}) =>
                 /\ MoveTos(log') # {}
                 /\ \A i \in MoveTos(log') :
                       /\ log'[i].ids = captured[b]
                       /\ log'[i].ids # camera]_vars

C33_Witness ==
    \E b, c \in Slots :
        /\ b # c
        /\ IsRecall(log, b)
        /\ captured[b] \in Poses
        /\ captured[c] \in Poses
        /\ camera = captured[c]
        /\ camera # captured[b]
        /\ Len(log) = 2
        /\ log[2].ids = captured[b]

\* ---- the search-active flag ----

\* C32: a query that is submitted, whose match sequence ends without
\* failing, and after which no further query is submitted, eventually has
\* isolate called with its matches and the search-active flag false, while
\* the render loop goes on.
C32_UnsupersededSearchCompletes ==
    /\ \A s \in Sessions :
          (pc[s] = "consuming") ~>
              \/ pc[s] = "failed"
              \/ nsub > s
              \/ /\ pc[s] = "done"
                 /\ Pos(log, "isolate", s) = {1}
                 /\ ~searching
    /\ [][\A s \in Sessions :
             \A i \in Pos(log', "isolate", s) :
                 log'[i].ids = yielded[s]]_vars

C32_Witness ==
    /\ nsub > 0
    /\ pc[nsub] = "done"
    /\ Pos(log, "isolate", nsub) = {1}
    /\ log[1].ids # <<>>
    /\ ~searching
    /\ displayed # NoFrame
    /\ rpc \in {"rendering", "gettingImage"}

\* C34: the search-active flag agrees with the sessions in every reachable
\* state: true whenever some submit handler is consuming a match sequence,
\* false whenever none is in flight.
C34_FlagAgreesWithSessions ==
    searching = (\E s \in Sessions : pc[s] = "consuming")

\* ---- the highlight index ----

\* C35: every entry of the highlight index is 0 or 255, and only a
\* completing search changes the index: render-loop iterations and bookmark
\* gestures never do.
C35_IndexOnlyZeroOr255 ==
    /\ [](\A i \in Ids :
             /\ objectHighlightIndices[i] \in {Visible, Hidden}
             /\ published[i] \in {Visible, Hidden})
    /\ [][/\ (objectHighlightIndices' # objectHighlightIndices
                 \/ published' # published) =>
                \E s \in Sessions :
                    /\ pc[s] = "consuming"
                    /\ pc'[s] = "done"
                    /\ Pos(log', "isolate", s) # {}
          /\ (\E i \in DOMAIN log' :
                 log'[i].ev \in {"render", "getImage", "transfer",
                                 "mousedown", "moveTo"}) =>
                /\ objectHighlightIndices' = objectHighlightIndices
                /\ published' = published
                /\ commits' = commits]_vars

C35_Witness ==
    /\ \E i \in Ids : published[i] = Hidden
    /\ \E i \in Ids : published[i] = Visible
    /\ displayed # NoFrame
    /\ \E i \in Ids : displayed.index[i] = Hidden
    /\ \E b \in DOMAIN captured : captured[b] # NoPose
    /\ log # <<>>
    /\ log[1].ev = "mousedown"


====
